---- MODULE Spec2Model ----
(***************************************************************************)
(* AudioDeviceMonitor (src/src/index.ts): a supervisor that spawns the     *)
(* native monitor executable, decodes the JSON snapshots it prints on      *)
(* stdout, diffs them against the last snapshot and emits change events,   *)
(* and stops the child with SIGTERM followed by a timed SIGKILL.           *)
(*                                                                         *)
(* Node's ChildProcess is modelled by what it does: spawn() returns a      *)
(* handle even when the executable is missing (the failure arrives later   *)
(* as an 'error' notification), .killed is set by a successful kill() and  *)
(* by nothing else, kill() on a child that has exited sends nothing and    *)
(* leaves .killed alone, and 'data' carries whatever bytes the pipe        *)
(* happened to hold, not one line.                                         *)
(***************************************************************************)
EXTENDS Integers, Sequences, FiniteSets, TLC

\* ------------------------------------------------------------------ bounds
MaxChildren == 2        \* children spawned over the life of one monitor
MaxRecords == 2         \* lines one child prints on stdout
MaxTicks == 4           \* clock ticks observed
NumListeners == 2       \* listeners registered for 'change'
MaxPendingExits == 1    \* host signals are taken while fewer exits are pending

\* --------------------------------------------------------------- constants
ShutdownDeadline == 3000   \* delay of the timer armed by stop()
TickMs == 1000             \* granularity of the modelled clock
ExitDelay == 1000          \* delay of process.exit() after a host signal
DefaultDelay == 250        \* delay when the option is absent
MinDelay == 100            \* smallest delay accepted
DefaultStep == 5           \* step when the option is absent or falsy
MaxStep == 100             \* largest step accepted

Children == 1..MaxChildren
NoProcess == 0             \* audioDeviceProcess = null

VARIABLES
  audioDeviceProcess,  \* the handle the monitor holds: NoProcess or a child
  nSpawned,            \* number of spawn() calls made so far
  proc,                \* per child: "none", "alive", "exited", or after a failed
                       \* spawn "failed", "errored" (reported), "gone" (closed)
  killed,              \* per child: ChildProcess.killed
  signals,             \* per child: the signals the OS delivered to it
  stdoutPipe,          \* per child: bytes printed and not yet delivered as 'data'
  nWritten,            \* per child: lines printed so far
  deviceInfo,          \* the comparison baseline
  deviceChange,        \* the change mask
  timers,              \* pending shutdown timers
  now,                 \* the clock, in ms
  sigHandlers,         \* SIGINT/SIGTERM handler pairs installed on the host
  written,             \* history: the lines printed, in order
  changes,             \* history: the 'change' emissions, in order
  emitted,             \* the events emitted by the last handler
  last,                \* the last handler run and what it acted on
  delay,               \* options: the polling delay
  step,                \* options: the volume step
  host,                \* the hosting program: "running" or "exited"
  hostTimers,          \* due times of the pending process.exit() timers
  forceLog             \* history: the shutdown-timer callbacks that escalated

vars == <<audioDeviceProcess, nSpawned, proc, killed, signals, stdoutPipe,
          nWritten, deviceInfo, deviceChange, timers, now, sigHandlers,
          written, changes, emitted, last, delay, step, host, hostTimers, forceLog>>

procVars == <<audioDeviceProcess, nSpawned, proc, killed, signals, timers, sigHandlers>>
dataVars == <<deviceInfo, deviceChange, changes>>
pipeVars == <<stdoutPipe, nWritten, written>>
optVars == <<delay, step>>
hostVars == <<host, hostTimers>>

\* ------------------------------------------------------------- JSON values
\* A primitive is represented by its JSON literal, so that === on two
\* primitives is equality of the literals and "50" differs from 50.
Undefined == "undefined"
KnownKeys == <<"id", "name", "volume", "muted">>
KnownKeySet == {KnownKeys[i] : i \in 1..Len(KnownKeys)}

Ids == {"\"a\""}
Names == {"\"Speakers\""}
Volumes == {"0", "50"}
Muteds == {"false", "true"}

EmptyProps == [k \in {} |-> Undefined]
JNull == [null |-> TRUE, props |-> EmptyProps]
JObj(p) == [null |-> FALSE, props |-> p]

Device(i, n, v, m) ==
  JObj([k \in KnownKeySet |->
          CASE k = "id" -> i [] k = "name" -> n [] k = "volume" -> v [] OTHER -> m])

Snapshots == {Device(i, n, v, m) : i \in Ids, n \in Names, v \in Volumes, m \in Muteds}
IsSnapshot(v) == v \in Snapshots

\* a snapshot that lacks required fields, and one whose volume is a string
PartialDevice == JObj([k \in {"id"} |-> "\"a\""])
WrongTypeDevice == Device("\"a\"", "\"Speakers\"", "\"50\"", "false")

\* the object literal the field is initialised with
InitialDeviceInfo == Device("\"\"", "\"\"", "0", "false")
DefaultChangeMask == [k \in KnownKeySet |-> FALSE]

\* ------------------------------------------------------------ stdout bytes
\* A printed line is the text of a JSON value, or text that is no JSON at
\* all.  Its bytes are modelled as three pieces (first half, second half,
\* newline) so that a 'data' chunk can end inside a line.
JsonLine(v) == [json |-> TRUE, value |-> v]
BadLine == [json |-> FALSE, value |-> JNull]
Lines == {JsonLine(v) : v \in Snapshots \cup {JNull, PartialDevice, WrongTypeDevice}}
           \cup {BadLine}

\* snapshots that carry a field outside IDevice
ExtraKey == "channels"
WithExtra(v, x) ==
  JObj([k \in DOMAIN v.props \cup {ExtraKey} |-> IF k = ExtraKey THEN x ELSE v.props[k]])
ExtraLines ==
  {JsonLine(WithExtra(Device("\"a\"", "\"Speakers\"", "50", m), x)) :
     m \in Muteds, x \in {"1", "2"}}

FirstHalf(l) == [part |-> "head", line |-> l]
SecondHalf(l) == [part |-> "tail", line |-> l]
Newline == [part |-> "nl", line |-> BadLine]
Bytes(l) == <<FirstHalf(l), SecondHalf(l), Newline>>

\* JSON.parse(data.toString()): leading and trailing whitespace is skipped;
\* what is left must be the complete text of exactly one JSON value.
Trimmed(chunk) ==
  LET idx == {i \in 1..Len(chunk) : chunk[i] # Newline}
  IN IF idx = {} THEN <<>>
     ELSE SubSeq(chunk, CHOOSE i \in idx : \A j \in idx : i <= j,
                        CHOOSE i \in idx : \A j \in idx : i >= j)

JSONparse(chunk) ==
  LET body == Trimmed(chunk)
  IN IF /\ Len(body) = 2
        /\ body[1] = FirstHalf(body[1].line)
        /\ body[2] = SecondHalf(body[1].line)
        /\ body[1].line.json
     THEN [ok |-> TRUE, value |-> body[1].line.value]
     ELSE [ok |-> FALSE, value |-> JNull]

\* ------------------------------------------------------------------ events
Ev(event, msg) == [event |-> event, msg |-> msg]
Count(evs, event) == Cardinality({i \in 1..Len(evs) : evs[i].event = event})
HasMsg(evs, msg) == \E i \in 1..Len(evs) : evs[i].msg = msg

\* ------------------------------------------------------------- checkChange
\* obj[key] on a non-null value: the property, or undefined
Get(v, key) == IF key \in DOMAIN v.props THEN v.props[key] ELSE Undefined

\* for (key in newDeviceInfo) if (new[key] !== this.deviceInfo[key]) mask[key] = true.
\* Reading a property of a null baseline throws on the first key.
ChangedKeys(newDeviceInfo, info) ==
  {k \in DOMAIN newDeviceInfo.props : newDeviceInfo.props[k] # Get(info, k)}

checkChange(newDeviceInfo, info, change) ==
  LET keys == DOMAIN newDeviceInfo.props
      threw == keys # {} /\ info.null
      changed == IF threw THEN {} ELSE ChangedKeys(newDeviceInfo, info)
  IN [threw |-> threw,
      change |-> [k \in DOMAIN change \cup changed |->
                    IF k \in changed THEN TRUE ELSE change[k]],
      alerts |-> [i \in 1..Cardinality(changed) |-> Ev("alert", "changed")]]

\* defaultChange()
defaultChange == DefaultChangeMask

\* ------------------------------------------------- the stdout 'data' handler
\* thr = 0: no 'change' listener throws; thr = k: the k-th listener throws.
Emission(c, info, change, calls) ==
  [child |-> c, info |-> info, change |-> change, calls |-> calls]

\* the handler with a catch block that swallows the exception
OnDataSilentCatch(c, chunk, thr, info, change) ==
  LET parsed == JSONparse(chunk)
      cc == checkChange(parsed.value, info, change)
  IN IF ~parsed.ok \/ cc.threw
     THEN [deviceInfo |-> info, deviceChange |-> change,
           emitted |-> <<>>, changes |-> <<>>]
     ELSE IF thr = 0
     THEN [deviceInfo |-> parsed.value, deviceChange |-> defaultChange,
           emitted |-> cc.alerts \o <<Ev("change", "")>>,
           changes |-> <<Emission(c, parsed.value, cc.change, NumListeners)>>]
     ELSE [deviceInfo |-> parsed.value, deviceChange |-> cc.change,
           emitted |-> cc.alerts \o <<Ev("change", "")>>,
           changes |-> <<Emission(c, parsed.value, cc.change, thr)>>]

OnData(c, chunk, thr, info, change) ==
  LET parsed == JSONparse(chunk)
      cc == checkChange(parsed.value, info, change)
      parseError == <<Ev("error", "data-failed")>>
  IN IF ~parsed.ok
     THEN [deviceInfo |-> info, deviceChange |-> change,
           emitted |-> parseError, changes |-> <<>>]
     ELSE IF cc.threw
     THEN [deviceInfo |-> info, deviceChange |-> change,
           emitted |-> parseError, changes |-> <<>>]
     ELSE IF thr = 0
     THEN [deviceInfo |-> parsed.value, deviceChange |-> defaultChange,
           emitted |-> cc.alerts \o <<Ev("change", "")>>,
           changes |-> <<Emission(c, parsed.value, cc.change, NumListeners)>>]
     ELSE [deviceInfo |-> parsed.value, deviceChange |-> cc.change,
           emitted |-> cc.alerts \o <<Ev("change", "")>> \o parseError,
           changes |-> <<Emission(c, parsed.value, cc.change, thr)>>]

\* ------------------------------------------------------------ ChildProcess
\* kill(sig) reaches the child only while the process exists; only then does
\* it set .killed.
Delivered(c) == proc[c] = "alive"
KilledAfterKill(c) == [killed EXCEPT ![c] = killed[c] \/ Delivered(c)]
SignalsAfterKill(c, sig) ==
  IF Delivered(c) THEN [signals EXCEPT ![c] = Append(signals[c], sig)] ELSE signals
SentByKill(c, sig) == IF Delivered(c) THEN <<[child |-> c, sig |-> sig]>> ELSE <<>>

\* wrote: the lines the handler passed to stdin.write
RanW(op, c, alive, sent, arg, wrote) ==
  [op |-> op, child |-> c, alive |-> alive, sent |-> sent, arg |-> arg, wrote |-> wrote]

Ran(op, c, alive, sent, arg) == RanW(op, c, alive, sent, arg, <<>>)

\* the close handler's choice of message
ExitMessage(code) ==
  IF code = "0" \/ code = "null" THEN "exit-success"
  ELSE IF code = "1" THEN "exit-incorrect " \o code
  ELSE "exit-code " \o code

\* ------------------------------------------------------------------- state
\* An option is a set: empty when the option is absent, else its value.
\* this.delay = options?.delay !== undefined ? Math.max(options.delay, 100) : 250
\* the option stored as given
InitialDelayUnclamped(delayOpt) ==
  IF delayOpt = {} THEN DefaultDelay ELSE CHOOSE d \in delayOpt : TRUE

\* this.delay = options?.delay !== undefined ? Math.max(options.delay, 100) : 250
InitialDelay(delayOpt) ==
  IF delayOpt = {} THEN DefaultDelay
  ELSE LET d == CHOOSE d \in delayOpt : TRUE IN IF d > MinDelay THEN d ELSE MinDelay

\* this.step = options?.step || 5
InitialStep(stepOpt) ==
  IF stepOpt = {} THEN DefaultStep
  ELSE LET n == CHOOSE n \in stepOpt : TRUE IN IF n = 0 THEN DefaultStep ELSE n

\* this.autoStart = options?.autoStart ?? true
AutoStartOnlyIfAsked(opt) == opt = {TRUE}
AutoStart(opt) == IF opt = {} THEN TRUE ELSE opt = {TRUE}
AutoStartText(opt) == IF opt = {} THEN "omitted" ELSE IF opt = {TRUE} THEN "true" ELSE "false"
AutoStartArgs == {{}, {TRUE}, {FALSE}}

InitWith(autoStartOpt, ok, delayOpt, stepOpt) ==
  LET autoStart == AutoStart(autoStartOpt) IN
    /\ delay = InitialDelay(delayOpt)
    /\ step = InitialStep(stepOpt)
    /\ host = "running"
    /\ hostTimers = <<>>
    /\ forceLog = <<>>
    /\ audioDeviceProcess = IF autoStart THEN 1 ELSE NoProcess
    /\ nSpawned = IF autoStart THEN 1 ELSE 0
    /\ proc = [c \in Children |->
                IF autoStart /\ c = 1 THEN (IF ok THEN "alive" ELSE "failed") ELSE "none"]
    /\ killed = [c \in Children |-> FALSE]
    /\ signals = [c \in Children |-> <<>>]
    /\ stdoutPipe = [c \in Children |-> <<>>]
    /\ nWritten = [c \in Children |-> 0]
    /\ deviceInfo = InitialDeviceInfo
    /\ deviceChange = DefaultChangeMask
    /\ timers = {}
    /\ now = 0
    /\ sigHandlers = IF autoStart THEN 1 ELSE 0
    /\ written = <<>>
    /\ changes = <<>>
    /\ emitted = <<>>
    /\ last = Ran("new", IF autoStart THEN 1 ELSE NoProcess, autoStart /\ ok, <<>>,
                  AutoStartText(autoStartOpt))

\* constructed without delay and step options
Init == \E autoStart \in AutoStartArgs, ok \in BOOLEAN : InitWith(autoStart, ok, {}, {})

\* ----------------------------------------------------------------- start()
\* start() with its guard left out
StartRejectsNever == FALSE

\* ok: whether the OS created the process.  spawn() returns a handle either
\* way; a missing executable is reported later through 'error'.
StartRejects == audioDeviceProcess # NoProcess

\* spawn(this.exePath, [this.delay.toString(), this.step.toString()])
SpawnArgs == [delay |-> delay, step |-> step]

Start(ok) ==
  IF StartRejects
  THEN /\ emitted' = <<Ev("error", "already-running")>>
       /\ last' = Ran("start", NoProcess, FALSE, <<>>, "rejected")
       /\ UNCHANGED <<procVars, dataVars, pipeVars, now, optVars, hostVars, forceLog>>
  ELSE /\ nSpawned < MaxChildren
       /\ nSpawned' = nSpawned + 1
       /\ audioDeviceProcess' = nSpawned + 1
       /\ proc' = [proc EXCEPT ![nSpawned + 1] = IF ok THEN "alive" ELSE "failed"]
       /\ sigHandlers' = sigHandlers + 1
       /\ emitted' = <<>>
       /\ last' = Ran("start", nSpawned + 1, ok, <<>>, "spawned")
       /\ UNCHANGED <<killed, signals, timers, dataVars, pipeVars, now,
                      optVars, hostVars, forceLog>>

\* the 'error' notification of a child that could not be spawned
SpawnError(c) ==
  /\ proc[c] = "failed"
  /\ proc' = [proc EXCEPT ![c] = "errored"]
  /\ emitted' = <<Ev("error", "spawn-failed")>>
  /\ last' = Ran("error", c, FALSE, <<>>, "")
  /\ UNCHANGED <<audioDeviceProcess, nSpawned, killed, signals, timers, sigHandlers,
                 dataVars, pipeVars, now, optVars, hostVars, forceLog>>

\* the 'error' and stderr handlers with a handle that is dropped
HandleAfterErrorCleared(c) == NoProcess

\* the 'error' and stderr 'data' handlers only report
HandleAfterError(c) == audioDeviceProcess

\* a chunk on the child's stderr
StderrData(c) ==
  /\ proc[c] = "alive"
  /\ audioDeviceProcess' = HandleAfterError(c)
  /\ emitted' = <<Ev("error", "stderr")>>
  /\ last' = Ran("stderr", c, TRUE, <<>>, "")
  /\ UNCHANGED <<nSpawned, proc, killed, signals, timers, sigHandlers,
                 dataVars, pipeVars, now, optVars, hostVars, forceLog>>

\* the 'error' notification of a child that was spawned (a signal or a
\* message could not be delivered to it)
ProcessError(c) ==
  /\ proc[c] = "alive"
  /\ audioDeviceProcess' = HandleAfterError(c)
  /\ emitted' = <<Ev("error", "spawn-failed")>>
  /\ last' = Ran("error", c, TRUE, <<>>, "")
  /\ UNCHANGED <<nSpawned, proc, killed, signals, timers, sigHandlers,
                 dataVars, pipeVars, now, optVars, hostVars, forceLog>>

\* ------------------------------------------------------------------ stop()
\* stop() that keeps the handle
StopHandleKept == audioDeviceProcess

\* this.audioDeviceProcess = null
StopHandle == NoProcess

Stop ==
  LET c == audioDeviceProcess IN
  IF c # NoProcess
  THEN /\ IF ~killed[c]
          THEN /\ killed' = KilledAfterKill(c)
               /\ signals' = SignalsAfterKill(c, "SIGTERM")
               /\ timers' = timers \cup {[due |-> now + ShutdownDeadline, target |-> c,
                                           armed |-> now, live |-> proc[c] = "alive"]}
               /\ emitted' = <<>>
               /\ last' = Ran("stop", c, proc[c] = "alive", SentByKill(c, "SIGTERM"), "armed")
          ELSE /\ emitted' = <<Ev("error", "already-terminated")>>
               /\ last' = Ran("stop", c, proc[c] = "alive", <<>>, "rejected")
               /\ UNCHANGED <<killed, signals, timers>>
       /\ audioDeviceProcess' = StopHandle
       /\ UNCHANGED <<nSpawned, proc, sigHandlers, dataVars, pipeVars, now,
                      optVars, hostVars, forceLog>>
  ELSE /\ emitted' = <<Ev("error", "no-process")>>
       /\ last' = Ran("stop", NoProcess, FALSE, <<>>, "rejected")
       /\ UNCHANGED <<procVars, dataVars, pipeVars, now, optVars, hostVars, forceLog>>

\* the callback of the timer armed by stop(): it looks at whatever handle the
\* monitor holds when it runs.  t.target records the child stop() signalled.
TimerVictim == audioDeviceProcess

\* the timer armed with its delay left out
TimerDueAtOnce(t) == now >= t.armed

\* a timer's callback never runs before its delay has passed
TimerDue(t) == now >= t.due

TimerFire(t) ==
  LET c == TimerVictim IN
  /\ t \in timers
  /\ TimerDue(t)
  /\ \A u \in timers : t.due <= u.due
  /\ timers' = timers \ {t}
  /\ IF c # NoProcess /\ ~killed[c]
     THEN /\ killed' = KilledAfterKill(c)
          /\ signals' = SignalsAfterKill(c, "SIGKILL")
          /\ emitted' = <<Ev("forceExit", "forced")>>
          /\ last' = Ran("timer", t.target, proc[t.target] = "alive",
                         SentByKill(c, "SIGKILL"), "")
          /\ forceLog' = Append(forceLog,
                                [target |-> t.target, live |-> t.live, armed |-> t.armed,
                                 at |-> now, targetAlive |-> proc[t.target] = "alive",
                                 victim |-> c, delivered |-> Delivered(c)])
     ELSE /\ emitted' = <<>>
          /\ last' = Ran("timer", t.target, proc[t.target] = "alive", <<>>, "")
          /\ UNCHANGED <<killed, signals, forceLog>>
  /\ UNCHANGED <<audioDeviceProcess, nSpawned, proc, sigHandlers, dataVars, pipeVars, now,
                 optVars, hostVars>>

Tick ==
  /\ now < MaxTicks * TickMs
  /\ now' = now + TickMs
  /\ UNCHANGED <<procVars, dataVars, pipeVars, emitted, last, optVars, hostVars, forceLog>>

\* ------------------------------------------------------------- the child
\* 'close': the process is gone and its pipes are drained.  A child that was
\* sent SIGKILL dies of it; a child that failed to spawn closes with the
\* negated errno.
ExitCodeSet == {"-2", "null", "0", "1", "2"}

ExitCodes(c) ==
  IF proc[c] = "errored" THEN {"-2"}
  ELSE IF \E i \in 1..Len(signals[c]) : signals[c][i] = "SIGKILL" THEN {"null"}
  ELSE IF signals[c] # <<>> THEN {"null", "0", "1", "2"}
  ELSE {"0", "1", "2"}

HandleAfterClose(c) == audioDeviceProcess

\* a close handler that spawns a replacement
ChildCloseRestarts(c, code) ==
  /\ proc[c] \in {"alive", "errored"}
  /\ stdoutPipe[c] = <<>>
  /\ code \in ExitCodes(c)
  /\ nSpawned < MaxChildren
  /\ nSpawned' = nSpawned + 1
  /\ proc' = [proc EXCEPT ![c] = IF proc[c] = "errored" THEN "gone" ELSE "exited",
                          ![nSpawned + 1] = "alive"]
  /\ audioDeviceProcess' = nSpawned + 1
  /\ emitted' = <<Ev("exit", ExitMessage(code))>>
  /\ last' = Ran("close", c, FALSE, <<>>, code)
  /\ UNCHANGED <<killed, signals, timers, sigHandlers, dataVars, pipeVars, now,
                 optVars, hostVars, forceLog>>

ChildClose(c, code) ==
  /\ proc[c] \in {"alive", "errored"}
  /\ stdoutPipe[c] = <<>>
  /\ code \in ExitCodes(c)
  /\ proc' = [proc EXCEPT ![c] = IF proc[c] = "errored" THEN "gone" ELSE "exited"]
  /\ audioDeviceProcess' = HandleAfterClose(c)
  /\ emitted' = <<Ev("exit", ExitMessage(code))>>
  /\ last' = Ran("close", c, FALSE, <<>>, code)
  /\ UNCHANGED <<nSpawned, killed, signals, timers, sigHandlers, dataVars, pipeVars, now,
                 optVars, hostVars, forceLog>>

\* the child prints one line
ChildWrite(c, l) ==
  /\ proc[c] = "alive"
  /\ nWritten[c] < MaxRecords
  /\ nWritten' = [nWritten EXCEPT ![c] = nWritten[c] + 1]
  /\ stdoutPipe' = [stdoutPipe EXCEPT ![c] = stdoutPipe[c] \o Bytes(l)]
  /\ written' = Append(written, l)
  /\ UNCHANGED <<procVars, dataVars, now, emitted, last, optVars, hostVars, forceLog>>

\* a 'data' event carrying the first n pieces waiting in the pipe
\* what a chunk holds: exactly one printed line (and of which kind), or
\* anything else (part of a line, several lines, only a newline)
Classify(chunk) ==
  LET text == SelectSeq(chunk, LAMBDA p : p # Newline)
  IN IF \E l \in Lines \cup ExtraLines : text = <<FirstHalf(l), SecondHalf(l)>>
     THEN IF ~text[1].line.json THEN "malformed"
          ELSE IF text[1].line.value.null THEN "null"
          ELSE IF IsSnapshot(text[1].line.value) THEN "snapshot"
          ELSE "other"
     ELSE "fragment"

Deliver(c, n, thr) ==
  /\ n \in 1..Len(stdoutPipe[c])
  /\ LET chunk == SubSeq(stdoutPipe[c], 1, n)
         r == OnData(c, chunk, thr, deviceInfo, deviceChange)
     IN /\ thr > 0 => r.changes # <<>>
        /\ deviceInfo' = r.deviceInfo
        /\ deviceChange' = r.deviceChange
        /\ changes' = changes \o r.changes
        /\ emitted' = r.emitted
        /\ last' = Ran("data", c, proc[c] = "alive", <<>>, Classify(chunk))
        /\ stdoutPipe' = [stdoutPipe EXCEPT
                            ![c] = SubSeq(stdoutPipe[c], n + 1, Len(stdoutPipe[c]))]
  /\ UNCHANGED <<procVars, nWritten, written, now, optVars, hostVars, forceLog>>

\* ---------------------------------------------------------------- commands
\* An optional argument is a set: empty when absent, else its value.
Arg(a) == CHOOSE n \in a : TRUE
Truthy(a) == a # {} /\ Arg(a) # 0
Line(verb, a) == [verb |-> verb, arg |-> a]
HasStdin == audioDeviceProcess # NoProcess
Running == audioDeviceProcess # NoProcess /\ proc[audioDeviceProcess] = "alive"

\* upVolume(step) and downVolume(step)
Volume(verb, a) ==
  /\ IF HasStdin
     THEN /\ emitted' = <<Ev("alert", verb)>>
          /\ last' = RanW(verb, audioDeviceProcess, proc[audioDeviceProcess] = "alive",
                          <<>>, "written",
                          <<Line(verb, IF Truthy(a) THEN a ELSE {})>>)
     ELSE /\ emitted' = <<Ev("error", "not-running")>>
          /\ last' = Ran(verb, NoProcess, FALSE, <<>>, "rejected")
  /\ UNCHANGED <<procVars, dataVars, pipeVars, now, optVars, hostVars, forceLog>>

upVolume(a) == Volume("upVolume", a)
downVolume(a) == Volume("downVolume", a)

\* setVolume(volume): the argument is checked first, then the channel; only
\* then is the line "setvolume <n>" written
VolumeValidNoFloor(v) == v <= 100
VolumeValid(v) == v >= 0 /\ v <= 100
VolumeText(v) ==
  CASE v = -1 -> "-1" [] v = 0 -> "0" [] v = 50 -> "50" [] v = 100 -> "100" [] OTHER -> "101"

setVolume(v) ==
  /\ IF ~VolumeValid(v)
     THEN /\ emitted' = <<Ev("error", "validation")>>
          /\ last' = Ran("setVolume", audioDeviceProcess, Running, <<>>, VolumeText(v))
     ELSE IF ~Running
     THEN /\ emitted' = <<Ev("error", "channel-unavailable")>>
          /\ last' = Ran("setVolume", audioDeviceProcess, FALSE, <<>>, VolumeText(v))
     ELSE /\ emitted' = <<>>
          /\ last' = RanW("setVolume", audioDeviceProcess, TRUE, <<>>, VolumeText(v),
                          <<Line("setvolume", {v})>>)
  /\ UNCHANGED <<procVars, dataVars, pipeVars, now, optVars, hostVars, forceLog>>

\* the range tests of setDelay and setStepVolume
DelayAccepted(d) == d >= MinDelay
StepAcceptedAnyPositive(n) == n > 0
StepAccepted(n) == n > 0 /\ n <= MaxStep

\* setDelay(newDelay): the new delay, the events and the lines written
setDelay(d, cur) ==
  IF HasStdin
  THEN IF DelayAccepted(d)
       THEN [value |-> d, emitted |-> <<Ev("alert", "delay-updated")>>,
             wrote |-> <<Line("setDelay", {d})>>]
       ELSE [value |-> cur, emitted |-> <<Ev("error", "delay-range")>>, wrote |-> <<>>]
  ELSE [value |-> cur, emitted |-> <<Ev("error", "not-running")>>, wrote |-> <<>>]

\* setStepVolume(newStep)
setStepVolume(n, cur) ==
  IF HasStdin
  THEN IF StepAccepted(n)
       THEN [value |-> n, emitted |-> <<Ev("alert", "step-updated")>>,
             wrote |-> <<Line("setStepVolume", {n})>>]
       ELSE [value |-> cur, emitted |-> <<Ev("error", "step-range")>>, wrote |-> <<>>]
  ELSE [value |-> cur, emitted |-> <<Ev("error", "not-running")>>, wrote |-> <<>>]

\* options.delay && this.setDelay(options.delay)
DelayCalled(dOpt) == Truthy(dOpt)
\* if (options.step !== undefined) this.setStepVolume(options.step)
StepCalled(sOpt) == sOpt # {}

Skipped(cur) == [value |-> cur, emitted |-> <<>>, wrote |-> <<>>]

updateSettings(dOpt, sOpt) ==
  LET rd == IF DelayCalled(dOpt) THEN setDelay(Arg(dOpt), delay) ELSE Skipped(delay)
      rs == IF StepCalled(sOpt) THEN setStepVolume(Arg(sOpt), step) ELSE Skipped(step)
  IN /\ delay' = rd.value
     /\ step' = rs.value
     /\ emitted' = rd.emitted \o rs.emitted
     /\ last' = RanW("updateSettings", audioDeviceProcess,
                     HasStdin /\ proc[audioDeviceProcess] = "alive", <<>>, "",
                     rd.wrote \o rs.wrote)
     /\ UNCHANGED <<procVars, dataVars, pipeVars, now, hostVars, forceLog>>

\* ----------------------------------------------------- the hosting program
\* SIGINT or SIGTERM arrives at the host.  Every start() installed one more
\* handler pair; each handler signals the child the monitor holds and
\* schedules process.exit().  With no handler installed the host dies at once.
Repeat(x, n) == [i \in 1..n |-> x]

HostSignal(sig) ==
  LET c == audioDeviceProcess
      hit == c # NoProcess /\ Delivered(c)
  IN /\ host = "running"
     /\ Len(hostTimers) < MaxPendingExits
     /\ IF sigHandlers = 0
        THEN /\ host' = "exited"
             /\ UNCHANGED <<hostTimers, killed, signals>>
        ELSE /\ hostTimers' = hostTimers \o Repeat(now + ExitDelay, sigHandlers)
             /\ killed' = IF hit THEN [killed EXCEPT ![c] = TRUE] ELSE killed
             /\ signals' = IF hit
                           THEN [signals EXCEPT ![c] = signals[c] \o Repeat(sig, sigHandlers)]
                           ELSE signals
             /\ host' = host
     /\ emitted' = <<>>
     /\ last' = Ran("hostSignal", c, hit,
                    IF hit /\ sigHandlers > 0
                    THEN Repeat([child |-> c, sig |-> sig], sigHandlers) ELSE <<>>, sig)
     /\ UNCHANGED <<audioDeviceProcess, nSpawned, proc, timers, sigHandlers,
                    dataVars, pipeVars, now, optVars, forceLog>>

\* a process.exit() timer runs
HostExit ==
  /\ host = "running"
  /\ hostTimers # <<>>
  /\ now >= hostTimers[1]
  /\ host' = "exited"
  /\ hostTimers' = <<>>
  /\ emitted' = <<>>
  /\ last' = Ran("hostExit", audioDeviceProcess, FALSE, <<>>, "")
  /\ UNCHANGED <<procVars, dataVars, pipeVars, now, optVars, forceLog>>

\* ------------------------------------------------------- specifications
\* the lifecycle: start, stop, the shutdown timer, the child's end
Next ==
  \/ \E ok \in BOOLEAN : Start(ok)
  \/ Stop
  \/ \E t \in timers : TimerFire(t)
  \/ Tick
  \/ \E c \in Children : SpawnError(c)
  \/ \E c \in Children, code \in {"-2", "null", "0", "1", "2"} : ChildClose(c, code)

Spec == Init /\ [][Next]_vars

\* the stdout pipeline of the children the monitor starts
NextStream ==
  \/ \E ok \in BOOLEAN : Start(ok)
  \/ \E c \in Children, l \in Lines : ChildWrite(c, l)
  \/ \E c \in Children, n \in 1..(3 * MaxRecords), thr \in 0..NumListeners : Deliver(c, n, thr)

SpecStream == Init /\ [][NextStream]_vars

\* the lifecycle under the host's termination signals
NextHost ==
  /\ host = "running"
  /\ \/ \E ok \in BOOLEAN : Start(ok)
     \/ Stop
     \/ \E t \in timers : TimerFire(t)
     \/ Tick
     \/ \E c \in Children, code \in {"null", "0", "1", "2"} : ChildClose(c, code)
     \/ \E sig \in {"SIGINT", "SIGTERM"} : HostSignal(sig)
     \/ HostExit

SpecHost == Init /\ [][NextHost]_vars

\* the command channel; the monitor is constructed with any of the options
DelayArgs == {{}, {0}, {50}, {100}, {300}}
StepArgs == {{}, {0}, {-1}, {1}, {100}, {1011}}
VolumeArgs == {{}, {0}, {10}}

InitOptions ==
  \E autoStart \in AutoStartArgs, ok \in BOOLEAN, dOpt \in DelayArgs, sOpt \in StepArgs :
    InitWith(autoStart, ok, dOpt, sOpt)

NextCommands ==
  \/ \E ok \in BOOLEAN : Start(ok)
  \/ Stop
  \/ \E c \in Children : SpawnError(c)
  \/ \E c \in Children, code \in {"-2", "null", "0", "1", "2"} : ChildClose(c, code)
  \/ \E a \in VolumeArgs : upVolume(a)
  \/ \E a \in VolumeArgs : downVolume(a)
  \/ \E dOpt \in DelayArgs, sOpt \in StepArgs : updateSettings(dOpt, sOpt)

SpecCommands == InitOptions /\ [][NextCommands]_vars

\* absolute volume against the life cycle
SetVolumeArgs == {-1, 0, 50, 100, 101}

NextSetVolume ==
  \/ \E ok \in BOOLEAN : Start(ok)
  \/ Stop
  \/ \E c \in Children : SpawnError(c)
  \/ \E c \in Children, code \in ExitCodeSet : ChildClose(c, code)
  \/ \E v \in SetVolumeArgs : setVolume(v)

SpecSetVolume == Init /\ [][NextSetVolume]_vars

\* stdout of one child after another: a few snapshots, MaxRecords lines in
\* all, listeners that return normally
SnapshotLines == {JsonLine(Device(i, "\"Speakers\"", "50", m)) : i \in Ids, m \in Muteds}

NextRestart ==
  \/ \E ok \in BOOLEAN : Start(ok)
  \/ Stop
  \/ \E c \in Children, code \in {"null", "0"} : ChildClose(c, code)
  \/ \E c \in Children, l \in SnapshotLines : Len(written) < MaxRecords /\ ChildWrite(c, l)
  \/ \E c \in Children, n \in 1..(3 * MaxRecords) : Deliver(c, n, 0)

SpecRestart == Init /\ [][NextRestart]_vars

\* stderr and 'error' notifications against the life cycle and the stream:
\* one snapshot, each line delivered whole, at most the first listener throws
ErrorsLines == {JsonLine(Device("\"a\"", "\"Speakers\"", "50", "true"))}

NextErrors ==
  \/ Start(TRUE)
  \/ Stop
  \/ \E c \in Children : SpawnError(c)
  \/ \E c \in Children : ChildClose(c, "0")
  \/ \E c \in Children : StderrData(c)
  \/ \E c \in Children : ProcessError(c)
  \/ \E c \in Children, l \in ErrorsLines : Len(written) < MaxRecords /\ ChildWrite(c, l)
  \/ \E c \in Children, thr \in {0, 1} : Deliver(c, Len(Bytes(BadLine)), thr)

SpecErrors == Init /\ [][NextErrors]_vars

\* stdout with fields the schema does not know
NextExtra ==
  \/ \E ok \in BOOLEAN : Start(ok)
  \/ \E c \in Children, l \in ExtraLines \cup SnapshotLines : ChildWrite(c, l)
  \/ \E c \in Children, n \in 1..(3 * MaxRecords), thr \in 0..NumListeners : Deliver(c, n, thr)

SpecExtra == Init /\ [][NextExtra]_vars

\* ================================================================= claims
Live == {c \in Children : proc[c] = "alive"}
SpawnFailed(c) == proc[c] \in {"failed", "errored", "gone"}
AllTrue(change) == \A k \in KnownKeySet : k \in DOMAIN change /\ change[k]
IsDataStep == \E c \in Children : Len(stdoutPipe'[c]) < Len(stdoutPipe[c])

\* C1: when the timer armed by stop() runs and the child stop() signalled has
\* not exited, that child is sent SIGKILL and exactly one forceExit is emitted.
C1_ForceKillAtDeadline ==
  (last.op = "timer" /\ last.alive) =>
    /\ last.sent = <<[child |-> last.child, sig |-> "SIGKILL"]>>
    /\ Count(emitted, "forceExit") = 1

\* C2: a monitor never has two children alive at once.
C2_AtMostOneLiveChild == Cardinality(Live) <= 1

\* C3: stop() with no handle (Idle) or with a handle whose child has exited
\* (Terminated) emits an error event and sends no signal.
C3_StopWhenNotRunningErrors ==
  (last.op = "stop" /\ (last.child = NoProcess \/ proc[last.child] = "exited")) =>
    /\ Count(emitted, "error") >= 1
    /\ last.sent = <<>>

\* C4: start() is never rejected while the child the monitor holds has
\* exited: it spawns a new child.
C4_StartAfterExitSpawns ==
  (last.op = "start" /\ last.arg = "rejected") => proc[audioDeviceProcess] # "exited"

\* C5: once every printed byte has been delivered, and all the printed lines
\* were snapshots, the change events carry exactly those snapshots, in order.
C5_FramingIndependent ==
  (/\ \A c \in Children : stdoutPipe[c] = <<>>
   /\ \A i \in 1..Len(written) : written[i].json /\ IsSnapshot(written[i].value)) =>
    [i \in 1..Len(changes) |-> changes[i].info] =
      [i \in 1..Len(written) |-> written[i].value]

\* C6: the first snapshot emitted carries a mask with every known field true.
C6_FirstSnapshotAllTrue ==
  (changes # <<>> /\ IsSnapshot(changes[1].info)) => AllTrue(changes[1].change)

\* C7: for consecutive snapshots S1, S2 the mask emitted with S2 has a field
\* true exactly when the field differs between S1 and S2.
C7_MaskIsDiff ==
  \A i \in 1..(Len(changes) - 1) :
    (IsSnapshot(changes[i].info) /\ IsSnapshot(changes[i + 1].info)) =>
      \A k \in KnownKeySet :
        changes[i + 1].change[k] =
          (changes[i + 1].info.props[k] # changes[i].info.props[k])

\* C8: a chunk holding one well-formed snapshot line always produces a change
\* event, whatever was delivered before it.
C8_BadRecordNeverStopsMonitor ==
  (last.op = "data" /\ last.arg = "snapshot") => Count(emitted, "change") = 1

C10_SpawnFailureLeavesIdle ==
  (last.op = "start" /\ last.arg = "rejected") => ~SpawnFailed(audioDeviceProcess)

\* ---------------------------------------------------------------- C11..C20
NumSent(c, sig) == Cardinality({i \in 1..Len(signals[c]) : signals[c][i] = sig})
ForcedOn(c) ==
  Cardinality({i \in 1..Len(forceLog) : forceLog[i].victim = c /\ forceLog[i].delivered})

Wrote(l, verb) == Cardinality({i \in 1..Len(l.wrote) : l.wrote[i].verb = verb})

\* C11: upVolume, downVolume and the setters of updateSettings, called while
\* no child is running, emit an error event and write nothing to stdin.
C11_CommandsNeedRunningChild ==
  (/\ last.op \in {"upVolume", "downVolume", "updateSettings"}
   /\ ~last.alive
   /\ last.op = "updateSettings" => emitted # <<>>) =>
    /\ Count(emitted, "error") >= 1
    /\ last.wrote = <<>>

\* C12: SIGKILL and forceExit come only from a shutdown timer's callback, no
\* sooner than ShutdownDeadline after the stop() that armed it, and at most
\* once per stop().
C12_NoForceBeforeDeadline ==
  /\ \A i \in 1..Len(forceLog) : forceLog[i].at >= forceLog[i].armed + ShutdownDeadline
  /\ \A i, j \in 1..Len(forceLog) : forceLog[i].target = forceLog[j].target => i = j
  /\ \A c \in Children : NumSent(c, "SIGKILL") = ForcedOn(c)
  /\ Count(emitted, "forceExit") > 0 => last.op = "timer"

\* a timer has escalated: SIGKILL was delivered and forceExit emitted
C12_Witness ==
  /\ last.op = "timer"
  /\ Count(emitted, "forceExit") = 1
  /\ \E i \in 1..Len(forceLog) : forceLog[i].delivered

\* C13: when the child stop() signalled exits before the timer runs, the
\* timer sends no SIGKILL and emits no forceExit.
C13_ExitCancelsTimer ==
  \A i \in 1..Len(forceLog) : ~(forceLog[i].live /\ ~forceLog[i].targetAlive)

\* C14: start() while a child is running emits one error, spawns nothing and
\* leaves the handle, the children, the baseline, the mask and the options
\* as they were.
C14_StartWhileRunningRejected ==
  [][((\E ok \in BOOLEAN : Start(ok)) /\ Running) =>
       /\ emitted' = <<Ev("error", "already-running")>>
       /\ nSpawned' = nSpawned
       /\ proc' = proc
       /\ audioDeviceProcess' = audioDeviceProcess
       /\ deviceInfo' = deviceInfo
       /\ deviceChange' = deviceChange
       /\ delay' = delay
       /\ step' = step]_vars

\* start() has just been rejected while a child runs under non-default options
C14_Witness ==
  /\ last.op = "start" /\ last.arg = "rejected"
  /\ Running
  /\ delay # DefaultDelay
  /\ step # DefaultStep

\* C16: when the host exits after SIGINT/SIGTERM, every child still alive has
\* been sent the graceful signal and then SIGKILL.
C16_HostSignalStopsEveryChild ==
  host = "exited" =>
    \A c \in Live :
      /\ NumSent(c, "SIGINT") + NumSent(c, "SIGTERM") >= 1
      /\ NumSent(c, "SIGKILL") >= 1

\* C17: updateSettings({step: n}) on a running monitor: n outside 1..100 gives
\* an error, no setStepVolume line and an unchanged step; n within 1..100
\* writes exactly one line "setStepVolume n".
C17_StepRange ==
  [][(Running /\ last'.op = "updateSettings") =>
     \A sOpt \in StepArgs \ {{}}, dOpt \in DelayArgs :
       updateSettings(dOpt, sOpt) =>
         IF Arg(sOpt) \in 1..100
         THEN /\ Wrote(last', "setStepVolume") = 1
              /\ \E i \in 1..Len(last'.wrote) : last'.wrote[i] = Line("setStepVolume", sOpt)
         ELSE /\ Count(emitted', "error") >= 1
              /\ Wrote(last', "setStepVolume") = 0
              /\ step' = step]_vars

\* a step was refused on a running monitor, and a step was accepted
C17_Witness ==
  /\ last.op = "updateSettings" /\ last.alive
  /\ HasMsg(emitted, "step-range")
  /\ Wrote(last, "setStepVolume") = 0
  /\ step = 100

\* C18: updateSettings({delay: d}) on a running monitor with d below 100,
\* 0 included, gives an error, no setDelay line and an unchanged delay;
\* d of 100 or more writes exactly one line "setDelay d".
C18_DelayRange ==
  [][\A dOpt \in DelayArgs, sOpt \in StepArgs :
       (updateSettings(dOpt, sOpt) /\ Running /\ dOpt # {}) =>
         IF Arg(dOpt) >= 100
         THEN /\ Wrote(last', "setDelay") = 1
              /\ \E i \in 1..Len(last'.wrote) : last'.wrote[i] = Line("setDelay", dOpt)
         ELSE /\ Count(emitted', "error") >= 1
              /\ Wrote(last', "setDelay") = 0
              /\ delay' = delay]_vars

\* C20: a child's close yields exactly one exit notification, and the
\* notification tells the exit code (or that there was none).
C20_ExitCarriesCode ==
  last.op = "close" =>
    /\ Count(emitted, "exit") = 1
    /\ \A code \in ExitCodeSet : ExitMessage(code) = emitted[1].msg => code = last.arg

\* C15: the first snapshot a later child delivers is emitted with every known
\* field true, whatever snapshots the children before it delivered.
C15_BaselineResetOnRestart ==
  \A i \in 1..Len(changes) :
    (/\ changes[i].child > 1
     /\ IsSnapshot(changes[i].info)
     /\ \A j \in 1..(i - 1) : changes[j].child # changes[i].child
     /\ \E j \in 1..(i - 1) : IsSnapshot(changes[j].info)) =>
      AllTrue(changes[i].change)

\* C19 as stated: setVolume(-1) and setVolume(101) always fail with a
\* validation error and write nothing; setVolume(0) and setVolume(100) always
\* write one line "setvolume n" and report no error.
C19_SetVolumePure ==
  last.op = "setVolume" =>
    IF last.arg \in {"-1", "101"}
    THEN HasMsg(emitted, "validation") /\ last.wrote = <<>>
    ELSE Count(emitted, "error") = 0 /\ Wrote(last, "setvolume") = 1

\* C19 amended: the outcome of validation depends on the argument alone; a
\* valid volume is written only while a child is running, and otherwise the
\* call fails as channel-unavailable with nothing written.
C19_SetVolumeValidatedFirst ==
  last.op = "setVolume" =>
    IF last.arg \in {"-1", "101"}
    THEN HasMsg(emitted, "validation") /\ last.wrote = <<>>
    ELSE IF last.alive
    THEN Count(emitted, "error") = 0 /\ Wrote(last, "setvolume") = 1
    ELSE HasMsg(emitted, "channel-unavailable") /\ last.wrote = <<>>

\* setVolume(-1) has just been refused while a child was running
C19_Witness ==
  /\ last.op = "setVolume" /\ last.arg = "-1"
  /\ Running
  /\ HasMsg(emitted, "validation")

\* ------------------------------------------------------------- C21..C30
\* C21: whenever a handler is about to run, the change mask has every field
\* false, so an emitted mask holds only its own snapshot's comparison.
C21_MaskClearBetweenCycles == deviceChange = DefaultChangeMask

\* C22: the baseline is replaced by a record only when the change event for
\* that record has been handed to every listener.
C22_BaselineAfterEmission ==
  [][(IsDataStep /\ deviceInfo' # deviceInfo) =>
       /\ Len(changes') = Len(changes) + 1
       /\ changes'[Len(changes')].info = deviceInfo'
       /\ changes'[Len(changes')].calls = NumListeners]_vars

\* C23: when two consecutive change events carry the same snapshot, the mask
\* of the second has every field false.
C23_SameSnapshotTwice ==
  \A i \in 1..(Len(changes) - 1) :
    (IsSnapshot(changes[i].info) /\ changes[i + 1].info = changes[i].info) =>
      \A k \in DOMAIN changes[i + 1].change : ~changes[i + 1].change[k]

\* C30: a data handler that emitted a change event called every listener,
\* reported no data-processing error and left the mask all false, whether or
\* not a listener threw.
C30_ListenerThrowIsolated ==
  (last.op = "data" /\ Count(emitted, "change") = 1) =>
    /\ changes[Len(changes)].calls = NumListeners
    /\ ~HasMsg(emitted, "data-failed")
    /\ deviceChange = DefaultChangeMask

\* C26: a child is spawned only by a start() step: no close, error
\* notification, stop() or timer callback adds a child.
C26_NoAutomaticRestart ==
  [][(nSpawned' # nSpawned \/ \E c \in Children : proc[c] = "none" /\ proc'[c] # "none") =>
       /\ \E ok \in BOOLEAN : Start(ok)
       /\ nSpawned' = nSpawned + 1]_vars

\* the only child has closed and nothing has been spawned in its place
C26_Witness ==
  /\ last.op = "close"
  /\ nSpawned = 1
  /\ \A c \in Children : proc[c] # "alive"

\* C27: right after construction one child has been spawned when autoStart
\* was omitted or true, none when it was false; from a monitor that has
\* spawned nothing, the first child comes from a start() step.
C27_AutoStart ==
  /\ [](last.op = "new" =>
          /\ nSpawned = (IF last.arg = "false" THEN 0 ELSE 1)
          /\ audioDeviceProcess = (IF last.arg = "false" THEN NoProcess ELSE 1))
  /\ [][(nSpawned = 0 /\ nSpawned' # 0) => \E ok \in BOOLEAN : Start(ok)]_vars

\* constructed with autoStart omitted: one child exists
C27_Witness == last.op = "new" /\ last.arg = "omitted" /\ nSpawned = 1 /\ proc[1] = "alive"

\* C28: a shutdown timer that escalates sends SIGKILL to the child its
\* stop() was called on, never to another child.
C28_TimerTargetsStoppedChild ==
  \A i \in 1..Len(forceLog) : forceLog[i].victim = forceLog[i].target

\* stop() has been called on child c: only stop() makes the monitor let go of
\* a child it spawned
Released(c) == c <= nSpawned /\ audioDeviceProcess # c

\* C29: a 'data' event of a child stop() has been called on emits no change
\* event and leaves the baseline as it was.
C29_StoppedChildIsSilent ==
  [][\A c \in Children :
       (Released(c) /\ Len(stdoutPipe'[c]) < Len(stdoutPipe[c])) =>
         /\ changes' = changes
         /\ deviceInfo' = deviceInfo]_vars

\* C24: an emitted mask has no entry for a field outside the schema, and
\* the emitted snapshot is a printed value, extra fields included.
C24_ExtraFieldsIgnoredInMask ==
  \A i \in 1..Len(changes) :
    /\ DOMAIN changes[i].change \subseteq KnownKeySet
    /\ \E j \in 1..Len(written) : written[j].value = changes[i].info

\* C25: a stderr chunk and an 'error' notification of a spawned child each
\* emit exactly one error event and leave the handle, the children, the
\* timers, the baseline and the mask as they were.
C25_ErrorsOnlyReported ==
  [][\A c \in Children :
       (StderrData(c) \/ ProcessError(c)) =>
         /\ Len(emitted') = 1
         /\ emitted'[1].event = "error"
         /\ UNCHANGED <<audioDeviceProcess, nSpawned, proc, killed, signals, timers,
                        deviceInfo, deviceChange, changes>>]_vars

\* an 'error' notification arrived for a running child whose baseline and
\* mask hold data
C25_Witness ==
  /\ last.op = "error" /\ last.alive
  /\ Running /\ audioDeviceProcess = last.child
  /\ Count(emitted, "error") = 1
  /\ deviceInfo # InitialDeviceInfo
  /\ deviceChange # DefaultChangeMask

\* ------------------------------------------------------------- C31..C34
IsSpawnStep == nSpawned' # nSpawned
TimersFor(c) == {t \in timers : t.target = c}

\* C31: stop() calls on one child send it SIGTERM at most once and arm at
\* most one shutdown timer for it; a stop() that follows a stop() emits one
\* error and sends and arms nothing.
C31_SecondStopOnlyErrors ==
  /\ [](\A c \in Children :
          /\ NumSent(c, "SIGTERM") <= 1
          /\ Cardinality(TimersFor(c)) <= 1)
  /\ [][(last.op = "stop" /\ Stop) =>
          /\ emitted' = <<Ev("error", "no-process")>>
          /\ signals' = signals
          /\ killed' = killed
          /\ timers' = timers]_vars

\* a second stop() has just been refused while the stopped child is alive
\* and its timer is pending
C31_Witness ==
  /\ last.op = "stop" /\ last.arg = "rejected"
  /\ \E c \in Children :
       /\ proc[c] = "alive"
       /\ NumSent(c, "SIGTERM") = 1
       /\ Cardinality(TimersFor(c)) = 1

C33_StepWithinRange ==
  /\ [](/\ step \in 1..MaxStep
        /\ \A i \in 1..Len(last.wrote) :
             last.wrote[i].verb = "setStepVolume" => Arg(last.wrote[i].arg) \in 1..MaxStep)
  /\ [][IsSpawnStep => SpawnArgs.step \in 1..MaxStep]_vars

\* C34: one SIGINT or SIGTERM at the host sends at most one signal to the
\* child the monitor holds and schedules at most one process.exit().
C34_HostHandlersDoNotAccumulate ==
  [][(\E sig \in {"SIGINT", "SIGTERM"} : HostSignal(sig)) =>
       /\ Len(last'.sent) <= 1
       /\ Len(hostTimers') <= Len(hostTimers) + 1]_vars

====
